---- MODULE Spec2Model ----
(***************************************************************************)
(* Audio production pipeline of the book site:                             *)
(*   scripts/prepare-audio-chunks.js   (Planner,          src/unnamed/part_005) *)
(*   scripts/generate-chapter-audio.js (Synthesis Runner, src/unnamed/part_003) *)
(*   scripts/concat-chapter-audio.js   (Assembler)                         *)
(*   scripts/build-reiki-audiobook.js  (combined driver)                   *)
(*                                                                         *)
(* Durations are counted in tenths of a second (0.8 s is 8, 2.0 s is 20).  *)
(* A text is a sequence of tokens: "w" a word, "sp" white space, "term"    *)
(* a {term:id} marker, "termc" a {term:id|custom} marker, "ref" a          *)
(* {ref:..} marker, "em" "/em" "strong" "/strong" the emphasis tags.       *)
(* A file is a record with an `exists` field.                              *)
(***************************************************************************)
EXTENDS Integers, Sequences, FiniteSets, TLC

VARIABLES
    chapterFile,     \* i18n/<lang>/chapters/ch<N>.json
    chunksFile,      \* audio/<lang>/ch<N>/chunks.json (the manifest)
    hasChunksDir,    \* audio/<lang>/ch<N>/chunks/ exists
    clips,           \* files of chunks/: path -> the text the clip was synthesized from
    silences,        \* paths of the files of audio/silences/
    silenceWrites,   \* per silence path: the ffmpeg writes since the file was last absent
    concatListFile,  \* audio/<lang>/ch<N>/concat-list.txt
    outputFile,      \* audio/<lang>/ch<N>/ch<N>-<lang>.mp3 (the final artifact)
    stage,           \* the script that runs or ran last: none, planner, runner, assembler
    pc,              \* idle, loop (top of the for loop), awaiting (textToSpeech pending), exited
    i,               \* generateChapterAudio: the loop index (0-based)
    successCount,    \* generateChapterAudio
    errorCount,      \* generateChapterAudio
    exitCode,        \* the script's exit status once pc = "exited"
    request,         \* the textToSpeech request in flight
    lastResult,      \* how the last textToSpeech call of this run ended, and for which clip
    lastSleep,       \* the sleep (ms) the runner's latest step ended with, 0 for none
    calledPaths,     \* clips textToSpeech was invoked for in this run
    failedPaths,     \* clips whose call failed with a non-throttling error in this run
    clipsAtStart,    \* the clips that existed when this run started
    report,          \* what the script printed and did: error kind, missing ids, tool input
    apiKey,          \* process.env.FISH_API_KEY is set
    provisioners,    \* runner processes inside generateAllSilences at the same time
    pathLog,         \* runs of the scripts for any (lang, chapter): the full paths written
    driver           \* build-reiki-audiobook.js: the state of the combined driver

vars == <<chapterFile, chunksFile, hasChunksDir, clips, silences, silenceWrites,
          concatListFile, outputFile, stage, pc, i, successCount, errorCount, exitCode,
          request, lastResult, lastSleep, calledPaths, failedPaths, clipsAtStart, report,
          apiKey, provisioners, pathLog, driver>>

fsVars == <<chapterFile, chunksFile, hasChunksDir, clips, silences, silenceWrites,
            concatListFile, outputFile>>

runVars == <<stage, pc, i, successCount, errorCount, exitCode, request,
             lastResult, lastSleep, calledPaths, failedPaths, clipsAtStart, report>>

\* what the three scripts leave alone: the environment and the driver
outerVars == <<apiKey, provisioners, pathLog, driver>>

-----------------------------------------------------------------------------
(* Bounds of the model *)

MaxUnits == 2

MaxErrorCount == 2

MaxSections == 2

MaxBlocks == 2

\* the write counts of a silence file hold at this value
MaxSilenceWrites == 2

\* the runs of the scripts whose written paths are kept
MaxRuns == 2

\* parseInt is modelled on the decimal strings of 0..MaxChapterArg
MaxChapterArg == 12

-----------------------------------------------------------------------------
(* Constants of the scripts *)

afterTitle == 20

afterParagraph == 8

afterQuote == 15

afterSection == 25

endChapter == 30

PAUSES == [afterTitle |-> afterTitle, afterParagraph |-> afterParagraph,
           afterQuote |-> afterQuote, afterSection |-> afterSection,
           endChapter |-> endChapter]

durationsMutNoQuotePause == <<8, 20, 25, 30>>

\* generateAllSilences: const durations = [0.8, 1.5, 2.0, 2.5, 3.0]
durations == <<8, 15, 20, 25, 30>>

NoFile == [exists |-> FALSE]

NoRequest == [path |-> "", text |-> <<>>]

NoResult == [outcome |-> "none", path |-> ""]

\* the runner processes that go through generateAllSilences side by side
Processes == {"runner ch1", "runner ch2"}

NoProvisioners == [proc \in Processes |-> [pc |-> "idle", k |-> 0, sawPartial |-> FALSE]]

\* the combined driver before main runs; attempted, failedChapters and
\* completedChapters record the calls of buildChapter and how their stages ended
NoDriver ==
    [pc |-> "idle", mode |-> "none", lang |-> "", chapter |-> 0, step |-> 0,
     successCount |-> 0, failCount |-> 0, exitCode |-> 0, requested |-> {},
     attempted |-> <<>>, failedChapters |-> {}, completedChapters |-> {},
     started |-> <<>>, codes |-> <<>>]

NoReport ==
    [kind |-> "none", missing |-> <<>>, toolInvoked |-> FALSE, toolInput |-> <<>>,
     entries |-> 0]

-----------------------------------------------------------------------------
(* Names and paths *)

\* String(n).padStart(3, '0')
PadStart3(n) ==
    IF n < 10 THEN "00" \o ToString(n)
    ELSE IF n < 100 THEN "0" \o ToString(n)
    ELSE ToString(n)

\* `ch${chapterNum}-chunk-${...}`
ChunkId(chapterNum, index) == "ch" \o ToString(chapterNum) \o "-chunk-" \o PadStart3(index)

\* `${duration}` of a JS number given in tenths: 20 prints "2", 8 prints "0.8"
NumberToString(d) ==
    IF d % 10 = 0 THEN ToString(d \div 10)
    ELSE ToString(d \div 10) \o "." \o ToString(d % 10)

\* path.join(chunksDir, `${chunk.id}.mp3`)
ChunkPath(id) == "chunks/" \o id \o ".mp3"

\* path.join(silencesDir, `silence-${duration}s.mp3`)
SilencePath(d) == "silences/silence-" \o NumberToString(d) \o "s.mp3"

AudioDirMutNoLang(lang, chapterNum) == "audio/ch" \o ToString(chapterNum)

\* path.join(__dirname, '..', 'audio', lang, `ch${chapterNum}`), from the repository root
AudioDir(lang, chapterNum) == "audio/" \o lang \o "/ch" \o ToString(chapterNum)

\* path.join(outputDir, 'chunks.json')
ChunksFilePath(lang, chapterNum) == AudioDir(lang, chapterNum) \o "/chunks.json"

\* path.join(chunksDir, `${chunk.id}.mp3`), chunksDir being path.join(audioDir, 'chunks')
ClipFilePath(lang, chapterNum, id) == AudioDir(lang, chapterNum) \o "/" \o ChunkPath(id)

\* path.join(audioDir, 'concat-list.txt')
ConcatListPath(lang, chapterNum) == AudioDir(lang, chapterNum) \o "/concat-list.txt"

\* path.join(audioDir, `ch${chapterNum}-${lang}.mp3`)
OutputFilePath(lang, chapterNum) ==
    AudioDir(lang, chapterNum) \o "/ch" \o ToString(chapterNum) \o "-" \o lang \o ".mp3"

\* path.join(__dirname, '..', 'audio', 'silences', `silence-${duration}s.mp3`)
SilenceFilePath(d) == "audio/" \o SilencePath(d)

-----------------------------------------------------------------------------
(* Planner: prepare-audio-chunks.js *)

RemovedTokens == {"ref", "em", "/em", "strong", "/strong"}

\* the replace() calls of cleanText: a term marker becomes its custom text or
\* its id, a ref marker and the emphasis tags disappear
ReplaceMarkers(text) ==
    LET kept == SelectSeq(text, LAMBDA t : t \notin RemovedTokens)
    IN  [k \in 1..Len(kept) |->
            IF kept[k] = "termc" THEN "custom"
            ELSE IF kept[k] = "term" THEN "id"
            ELSE kept[k]]

\* text.replace(/\s+/g, ' '): a run of white space becomes one space
RECURSIVE CollapseSpaces(_)
CollapseSpaces(text) ==
    IF Len(text) < 2 THEN text
    ELSE IF text[1] = "sp" /\ text[2] = "sp" THEN CollapseSpaces(Tail(text))
    ELSE <<text[1]>> \o CollapseSpaces(Tail(text))

\* .trim()
Trim(text) ==
    LET noHead == IF Len(text) > 0 /\ text[1] = "sp" THEN Tail(text) ELSE text
    IN  IF Len(noHead) > 0 /\ noHead[Len(noHead)] = "sp"
        THEN SubSeq(noHead, 1, Len(noHead) - 1)
        ELSE noHead

cleanText(text) ==
    IF text = <<>> THEN <<>>
    ELSE Trim(CollapseSpaces(ReplaceMarkers(text)))

PauseAfterMutWrongOrder(block, isLastBlock, isLastSection) ==
    IF isLastBlock THEN PAUSES.afterSection
    ELSE IF isLastBlock /\ isLastSection THEN PAUSES.endChapter
    ELSE IF block.type = "quote" THEN PAUSES.afterQuote
    ELSE PAUSES.afterParagraph

\* lines 86-97: the base pause by type, then the positional overrides
PauseAfter(block, isLastBlock, isLastSection) ==
    LET byType == IF block.type = "quote" THEN PAUSES.afterQuote ELSE PAUSES.afterParagraph
    IN  IF isLastBlock /\ isLastSection THEN PAUSES.endChapter
        ELSE IF isLastBlock THEN PAUSES.afterSection
        ELSE byType

IndexAfterEmptyBlockMutCounted(chunkIndex) == chunkIndex + 1

\* line 84: a block that is empty once cleaned returns before the chunkIndex++ of line 106
IndexAfterEmptyBlock(chunkIndex) == chunkIndex

\* the two forEach loops: the chunks pushed from block b of section s onwards,
\* chunkIndex being the index the next chunk gets
RECURSIVE ChunksFrom(_, _, _, _, _)
ChunksFrom(chapter, chapterNum, s, b, chunkIndex) ==
    IF s > Len(chapter.sections) THEN <<>>
    ELSE IF b > Len(chapter.sections[s].content)
         THEN ChunksFrom(chapter, chapterNum, s + 1, 1, chunkIndex)
    ELSE LET block == chapter.sections[s].content[b]
             isLastSection == s = Len(chapter.sections)
             isLastBlock == b = Len(chapter.sections[s].content)
             cleanedText == cleanText(block.text)
         IN  IF cleanedText = <<>>
             THEN ChunksFrom(chapter, chapterNum, s, b + 1, IndexAfterEmptyBlock(chunkIndex))
             ELSE <<[id |-> ChunkId(chapterNum, chunkIndex),
                     type |-> block.type,
                     text |-> cleanedText,
                     pauseAfter |-> PauseAfter(block, isLastBlock, isLastSection)]>>
                  \o ChunksFrom(chapter, chapterNum, s, b + 1, chunkIndex + 1)

InitialChunksMutKeepsOld == IF chunksFile.exists THEN chunksFile.chunks ELSE <<>>

\* line 62: const chunks = []
InitialChunks == <<>>

\* the chunksData object prepareChapterChunks builds and writes
ChunksData(chapter, chapterNum, lang) ==
    LET chunks == InitialChunks \o
                  <<[id |-> ChunkId(chapterNum, 0),
                     type |-> "intro",
                     text |-> <<"numberText", ".", "sp", "title">>,
                     pauseAfter |-> PAUSES.afterTitle]>> \o
                  ChunksFrom(chapter, chapterNum, 1, 1, 1)
    IN  [exists |-> TRUE, chapter |-> chapterNum, lang |-> lang,
         totalChunks |-> Len(chunks), chunks |-> chunks]

-----------------------------------------------------------------------------
(* Steps common to the three scripts *)

AtRest == pc \in {"idle", "exited"}

\* a script that ends at once: its exit status and what it printed
Exit(script, code, kind) ==
    /\ stage' = script
    /\ pc' = "exited"
    /\ exitCode' = code
    /\ report' = [NoReport EXCEPT !.kind = kind]
    /\ i' = 0
    /\ successCount' = 0
    /\ errorCount' = 0
    /\ request' = NoRequest
    /\ lastResult' = NoResult
    /\ lastSleep' = 0
    /\ calledPaths' = {}
    /\ failedPaths' = {}
    /\ clipsAtStart' = {}

\* no script runs and the last exit status is gone
Forget ==
    /\ stage' = "none"
    /\ pc' = "idle"
    /\ exitCode' = 0
    /\ report' = NoReport
    /\ i' = 0
    /\ successCount' = 0
    /\ errorCount' = 0
    /\ request' = NoRequest
    /\ lastResult' = NoResult
    /\ lastSleep' = 0
    /\ calledPaths' = {}
    /\ failedPaths' = {}
    /\ clipsAtStart' = {}

-----------------------------------------------------------------------------
(* Planner: prepareChapterChunks and main *)

PrepareNoChapter ==
    /\ AtRest
    /\ ~chapterFile.exists
    /\ Exit("planner", 1, "ChapterMissing")
    /\ UNCHANGED <<fsVars, outerVars>>

prepareChapterChunks ==
    /\ AtRest
    /\ chapterFile.exists
    /\ chunksFile' = ChunksData(chapterFile, chapterFile.number, chapterFile.lang)
    /\ Exit("planner", 0, "ok")
    /\ UNCHANGED <<chapterFile, hasChunksDir, clips, silences, silenceWrites,
                   concatListFile, outputFile, outerVars>>

-----------------------------------------------------------------------------
(* Synthesis Runner: generate-chapter-audio.js *)

EnsuredSilencesMutNone(k) == silences

\* the silences directory once generateAllSilences has gone through the first k durations
EnsuredSilences(k) == silences \cup {SilencePath(durations[j]) : j \in 1..k}

SilenceFileExistsMutUnchecked(outputPath) == FALSE

\* line 29: fs.existsSync(outputPath), on which generateSilence returns at once
SilenceFileExists(outputPath) == outputPath \in silences

\* the files ffmpeg is run for while generateAllSilences goes through the first k durations
WrittenSilences(k) ==
    {SilencePath(durations[j]) : j \in {n \in 1..k : ~SilenceFileExists(SilencePath(durations[n]))}}

\* the write counts once ffmpeg has written the files of `written`
WritesAfter(written) ==
    [p \in DOMAIN silenceWrites |->
        IF p \in written /\ silenceWrites[p] < MaxSilenceWrites
        THEN silenceWrites[p] + 1
        ELSE silenceWrites[p]]

ShouldSkipMutNever(outputPath) == FALSE

\* line 157: fs.existsSync(outputPath)
ShouldSkip(outputPath) == outputPath \in DOMAIN clips

\* error.message.includes('429')
IsRateLimited(message) == \E k \in 1..Len(message) : message[k] = "429"

\* the messages textToSpeech rejects with: `API Error ${res.statusCode}: ...`
ErrorMessages == {<<"API Error", "429">>, <<"API Error", "500">>}

\* lines 66-70: without the key textToSpeech throws before any request is made
KeyRequiredMessage == <<"FISH_API_KEY environment variable is required">>

\* what a call of textToSpeech can reject with
RejectMessages == IF apiKey THEN ErrorMessages ELSE {KeyRequiredMessage}

RetryIndexMutBackTwo(idx) == IF idx > 0 THEN idx - 2 ELSE idx - 1

RetryIndexMutNoDecrement(idx) == idx

\* line 185: i--
RetryIndex(idx) == idx - 1

ErrorCountAfterMutNotCounted(count) == count

\* line 179: errorCount++ (the count holds at MaxErrorCount)
ErrorCountAfter(count) == IF count < MaxErrorCount THEN count + 1 ELSE count

IndexAfterErrorMutRetry(idx) == idx

\* a rejected call that is not rate limited falls out of the catch block to the loop's i++
IndexAfterError(idx) == idx + 1

\* line 22: const DELAY_BETWEEN_REQUESTS = 500 (ms)
DELAY_BETWEEN_REQUESTS == 500

\* line 184: await sleep(5000)
RateLimitSleep == 5000

PacingDelayMutAlways(idx, totalChunks) == DELAY_BETWEEN_REQUESTS

\* lines 173-175: if (i < chunksData.totalChunks - 1) await sleep(DELAY_BETWEEN_REQUESTS)
PacingDelay(idx, totalChunks) == IF idx < totalChunks - 1 THEN DELAY_BETWEEN_REQUESTS ELSE 0

\* main: process.exit(1) unless result.errorCount === 0
RunnerExitCode(errors) == IF errors = 0 THEN 0 ELSE 1

\* the chunk the loop is at
CurrentChunk == chunksFile.chunks[i + 1]

GenerateNoManifestMutMkdirFirst ==
    /\ AtRest
    /\ ~chunksFile.exists
    /\ hasChunksDir' = TRUE
    /\ Exit("runner", 1, "ManifestMissing")
    /\ UNCHANGED <<chapterFile, chunksFile, clips, silences, silenceWrites, concatListFile,
                   outputFile, outerVars>>

\* lines 124-128: the manifest is looked for before anything is created
GenerateNoManifest ==
    /\ AtRest
    /\ ~chunksFile.exists
    /\ Exit("runner", 1, "ManifestMissing")
    /\ UNCHANGED <<fsVars, outerVars>>

\* generateSilence throws for the first duration whose ffmpeg run fails; ffmpeg may
\* or may not leave a file behind
GenerateSilenceFails ==
    /\ AtRest
    /\ chunksFile.exists
    /\ hasChunksDir' = TRUE
    /\ \E k \in 0..(Len(durations) - 1) : \E left \in BOOLEAN :
          /\ ~SilenceFileExists(SilencePath(durations[k + 1]))
          /\ silences' = EnsuredSilences(k) \cup
                            (IF left THEN {SilencePath(durations[k + 1])} ELSE {})
          /\ silenceWrites' = WritesAfter(WrittenSilences(k) \cup
                            (IF left THEN {SilencePath(durations[k + 1])} ELSE {}))
    /\ Exit("runner", 1, "Fatal")
    /\ UNCHANGED <<chapterFile, chunksFile, clips, concatListFile, outputFile, outerVars>>

\* generateChapterAudio up to the for loop
GenerateStart ==
    /\ AtRest
    /\ chunksFile.exists
    /\ hasChunksDir' = TRUE
    /\ silences' = EnsuredSilences(Len(durations))
    /\ silenceWrites' = WritesAfter(WrittenSilences(Len(durations)))
    /\ stage' = "runner"
    /\ pc' = "loop"
    /\ i' = 0
    /\ successCount' = 0
    /\ errorCount' = 0
    /\ exitCode' = 0
    /\ request' = NoRequest
    /\ lastResult' = NoResult
    /\ lastSleep' = 0
    /\ calledPaths' = {}
    /\ failedPaths' = {}
    /\ clipsAtStart' = DOMAIN clips
    /\ report' = NoReport
    /\ UNCHANGED <<chapterFile, chunksFile, clips, concatListFile, outputFile, outerVars>>

\* lines 157-161: the clip exists
LoopSkip ==
    /\ stage = "runner" /\ pc = "loop"
    /\ i < Len(chunksFile.chunks)
    /\ ShouldSkip(ChunkPath(CurrentChunk.id))
    /\ successCount' = successCount + 1
    /\ i' = i + 1
    /\ lastSleep' = 0
    /\ UNCHANGED <<fsVars, outerVars, stage, pc, errorCount, exitCode, request, lastResult,
                   calledPaths, failedPaths, clipsAtStart, report>>

\* line 167: textToSpeech(chunk.text, outputPath, voiceId) is called
LoopCall ==
    /\ stage = "runner" /\ pc = "loop"
    /\ i < Len(chunksFile.chunks)
    /\ ~ShouldSkip(ChunkPath(CurrentChunk.id))
    /\ request' = [path |-> ChunkPath(CurrentChunk.id), text |-> CurrentChunk.text]
    /\ calledPaths' = calledPaths \cup {ChunkPath(CurrentChunk.id)}
    /\ pc' = "awaiting"
    /\ lastSleep' = 0
    /\ UNCHANGED <<fsVars, outerVars, stage, i, successCount, errorCount, exitCode,
                   lastResult, failedPaths, clipsAtStart, report>>

\* textToSpeech resolves: the clip is written (line 110), lines 168-175
TextToSpeechResolves ==
    /\ stage = "runner" /\ pc = "awaiting"
    /\ apiKey
    /\ clips' = [p \in DOMAIN clips \cup {request.path} |->
                    IF p = request.path THEN request.text ELSE clips[p]]
    /\ successCount' = successCount + 1
    /\ i' = i + 1
    /\ lastResult' = [outcome |-> "ok", path |-> request.path]
    /\ lastSleep' = PacingDelay(i, chunksFile.totalChunks)
    /\ request' = NoRequest
    /\ pc' = "loop"
    /\ UNCHANGED <<chapterFile, chunksFile, hasChunksDir, silences, silenceWrites,
                   concatListFile, outputFile, stage, errorCount, exitCode, calledPaths,
                   failedPaths, clipsAtStart, report, outerVars>>

ClipsAfterRejectMutWritesErrorBody(outputPath, message) ==
    [p \in DOMAIN clips \cup {outputPath} |-> IF p = outputPath THEN <<message>> ELSE clips[p]]

\* textToSpeech, lines 98-105 and 115: a status other than 200 and a request error
\* reject without reaching fs.writeFileSync(outputPath, audioBuffer) of line 110
ClipsAfterReject(outputPath, message) == clips

\* textToSpeech rejects: the catch block, lines 177-188
TextToSpeechRejects ==
    /\ stage = "runner" /\ pc = "awaiting"
    /\ \E message \in RejectMessages :
          /\ clips' = ClipsAfterReject(request.path, message)
          /\ errorCount' = ErrorCountAfter(errorCount)
          /\ IF IsRateLimited(message)
             THEN /\ i' = RetryIndex(i) + 1
                  /\ lastResult' = [outcome |-> "throttled", path |-> request.path]
                  /\ lastSleep' = RateLimitSleep
                  /\ failedPaths' = failedPaths
             ELSE /\ i' = IndexAfterError(i)
                  /\ lastResult' = [outcome |-> "error", path |-> request.path]
                  /\ lastSleep' = 0
                  /\ failedPaths' = failedPaths \cup {request.path}
    /\ request' = NoRequest
    /\ pc' = "loop"
    /\ UNCHANGED <<chapterFile, chunksFile, hasChunksDir, silences, silenceWrites,
                   concatListFile, outputFile, outerVars, stage, successCount, exitCode,
                   calledPaths, clipsAtStart, report>>

GenerateFinishMutRecordsProgress ==
    /\ stage = "runner" /\ pc = "loop"
    /\ i >= Len(chunksFile.chunks)
    /\ pc' = "exited"
    /\ exitCode' = RunnerExitCode(errorCount)
    /\ report' = [NoReport EXCEPT !.kind = IF errorCount = 0 THEN "ok" ELSE "SomeFailed"]
    /\ lastSleep' = 0
    /\ chunksFile' = [chunksFile EXCEPT !.totalChunks = successCount]
    /\ UNCHANGED <<chapterFile, hasChunksDir, clips, silences, silenceWrites, concatListFile,
                   outputFile, outerVars, stage, i, successCount, errorCount, request,
                   lastResult, calledPaths, failedPaths, clipsAtStart>>

\* the loop ends, generateChapterAudio returns and main sets the exit status
GenerateFinish ==
    /\ stage = "runner" /\ pc = "loop"
    /\ i >= Len(chunksFile.chunks)
    /\ pc' = "exited"
    /\ exitCode' = RunnerExitCode(errorCount)
    /\ report' = [NoReport EXCEPT !.kind = IF errorCount = 0 THEN "ok" ELSE "SomeFailed"]
    /\ lastSleep' = 0
    /\ UNCHANGED <<fsVars, outerVars, stage, i, successCount, errorCount, request, lastResult,
                   calledPaths, failedPaths, clipsAtStart>>

RunnerStep == LoopSkip \/ LoopCall \/ TextToSpeechResolves \/ TextToSpeechRejects \/ GenerateFinish

-----------------------------------------------------------------------------
(* Assembler: concat-chapter-audio.js *)

ClipExists(chunkFile) == chunkFile \in DOMAIN clips

\* line 58: chunk.pauseAfter > 0
SilenceNeeded(chunk) == chunk.pauseAfter > 0

SilenceExistsMutUnchecked(silenceFile) == TRUE

\* line 61: fs.existsSync(silenceFile)
SilenceExists(silenceFile) == silenceFile \in silences

ConcatEntriesMutSilenceFirst(chunkFile, silenceFile) == <<silenceFile, chunkFile>>

\* lines 55 and 67: the chunk's line, then its silence's line
ConcatEntries(chunkFile, silenceFile) == <<chunkFile, silenceFile>>

\* lines 46-69, from chunk k onwards: the concat list, the missing chunks, and
\* whether a missing silence file ended the script
RECURSIVE ConcatLoop(_, _, _, _)
ConcatLoop(chunks, k, concatList, missingChunks) ==
    IF k > Len(chunks)
    THEN [exited |-> FALSE, concatList |-> concatList, missingChunks |-> missingChunks]
    ELSE LET chunk == chunks[k]
             chunkFile == ChunkPath(chunk.id)
             silenceFile == SilencePath(chunk.pauseAfter)
         IN  IF ~ClipExists(chunkFile)
             THEN ConcatLoop(chunks, k + 1, concatList, Append(missingChunks, chunk.id))
             ELSE IF SilenceNeeded(chunk)
             THEN IF ~SilenceExists(silenceFile)
                  THEN [exited |-> TRUE, concatList |-> concatList,
                        missingChunks |-> missingChunks]
                  ELSE ConcatLoop(chunks, k + 1,
                                  concatList \o ConcatEntries(chunkFile, silenceFile),
                                  missingChunks)
             ELSE ConcatLoop(chunks, k + 1, concatList \o <<chunkFile>>, missingChunks)

\* line 80: `Created concat list: ${chunksData.chunks.length * 2} entries`
ReportedEntries(chunks) == Len(chunks) * 2

ConcatNoManifest ==
    /\ AtRest
    /\ ~chunksFile.exists
    /\ Exit("assembler", 1, "ManifestMissing")
    /\ UNCHANGED <<fsVars, outerVars>>

ConcatNoChunksDir ==
    /\ AtRest
    /\ chunksFile.exists
    /\ ~hasChunksDir
    /\ Exit("assembler", 1, "ChunksDirMissing")
    /\ UNCHANGED <<fsVars, outerVars>>

\* process.exit(1) at line 64 (a silence is missing) or at line 75 (chunks are missing)
ConcatAborts ==
    /\ AtRest
    /\ chunksFile.exists
    /\ hasChunksDir
    /\ LET loop == ConcatLoop(chunksFile.chunks, 1, <<>>, <<>>)
       IN  /\ loop.exited \/ Len(loop.missingChunks) > 0
           /\ stage' = "assembler"
           /\ pc' = "exited"
           /\ exitCode' = 1
           /\ report' = IF loop.exited
                        THEN [NoReport EXCEPT !.kind = "SilenceMissing"]
                        ELSE [NoReport EXCEPT !.kind = "ClipMissing",
                                              !.missing = loop.missingChunks]
    /\ i' = 0 /\ successCount' = 0 /\ errorCount' = 0
    /\ request' = NoRequest /\ lastResult' = NoResult /\ lastSleep' = 0
    /\ calledPaths' = {} /\ failedPaths' = {} /\ clipsAtStart' = {}
    /\ UNCHANGED <<fsVars, outerVars>>

\* lines 79-111: the concat list is written and ffmpeg runs on it, writing the
\* output file in place (-y); a failing ffmpeg may have written part of it
ConcatRuns ==
    /\ AtRest
    /\ chunksFile.exists
    /\ hasChunksDir
    /\ LET loop == ConcatLoop(chunksFile.chunks, 1, <<>>, <<>>)
       IN  /\ ~loop.exited
           /\ Len(loop.missingChunks) = 0
           /\ concatListFile' = [exists |-> TRUE, lines |-> loop.concatList]
           /\ \E toolOutcome \in {"ok", "failed, output untouched", "failed, output partial"} :
                 /\ outputFile' =
                       IF toolOutcome = "ok"
                       THEN [exists |-> TRUE, complete |-> TRUE, inputs |-> loop.concatList]
                       ELSE IF toolOutcome = "failed, output partial"
                       THEN [exists |-> TRUE, complete |-> FALSE, inputs |-> loop.concatList]
                       ELSE outputFile
                 /\ exitCode' = IF toolOutcome = "ok" THEN 0 ELSE 1
                 /\ report' = [kind |-> IF toolOutcome = "ok" THEN "ok" ELSE "ConcatToolError",
                               missing |-> <<>>,
                               toolInvoked |-> TRUE,
                               toolInput |-> loop.concatList,
                               entries |-> ReportedEntries(chunksFile.chunks)]
    /\ stage' = "assembler"
    /\ pc' = "exited"
    /\ i' = 0 /\ successCount' = 0 /\ errorCount' = 0
    /\ request' = NoRequest /\ lastResult' = NoResult /\ lastSleep' = 0
    /\ calledPaths' = {} /\ failedPaths' = {} /\ clipsAtStart' = {}
    /\ UNCHANGED <<chapterFile, chunksFile, hasChunksDir, clips, silences, silenceWrites,
                   outerVars>>

concatChapterAudio == ConcatNoManifest \/ ConcatNoChunksDir \/ ConcatAborts \/ ConcatRuns

-----------------------------------------------------------------------------
(* generateAllSilences of runner processes that run at the same time, step by step *)

\* the file is on disk while an ffmpeg that writes it has not ended
PartlyWritten(outputPath) ==
    \E proc \in Processes :
        /\ provisioners[proc].pc = "writing"
        /\ SilencePath(durations[provisioners[proc].k]) = outputPath

\* the loop of lines 57-60 goes on to the next duration
NextDuration(p) ==
    IF p.k < Len(durations)
    THEN [p EXCEPT !.pc = "check", !.k = p.k + 1]
    ELSE [p EXCEPT !.pc = "done"]

\* line 29: fs.existsSync(outputPath); the file exists and generateSilence returns
SilenceFound(proc) ==
    LET p == provisioners[proc]
        outputPath == SilencePath(durations[p.k])
    IN  /\ p.pc = "check"
        /\ SilenceFileExists(outputPath)
        /\ provisioners' =
              [provisioners EXCEPT
                  ![proc] = NextDuration([p EXCEPT
                                !.sawPartial = p.sawPartial \/ PartlyWritten(outputPath)])]
        /\ UNCHANGED <<fsVars, runVars, apiKey, pathLog, driver>>

\* line 29: the file does not exist, generateSilence goes on to line 36
SilenceNotFound(proc) ==
    LET p == provisioners[proc]
    IN  /\ p.pc = "check"
        /\ ~SilenceFileExists(SilencePath(durations[p.k]))
        /\ provisioners' = [provisioners EXCEPT ![proc] = [p EXCEPT !.pc = "ffmpeg"]]
        /\ UNCHANGED <<fsVars, runVars, apiKey, pathLog, driver>>

\* line 39: ffmpeg opens the output file (-y: whether or not it exists by now)
FfmpegStarts(proc) ==
    LET p == provisioners[proc]
        outputPath == SilencePath(durations[p.k])
    IN  /\ p.pc = "ffmpeg"
        /\ silences' = silences \cup {outputPath}
        /\ silenceWrites' = WritesAfter({outputPath})
        /\ provisioners' = [provisioners EXCEPT ![proc] = [p EXCEPT !.pc = "writing"]]
        /\ UNCHANGED <<chapterFile, chunksFile, hasChunksDir, clips, concatListFile,
                       outputFile, runVars, apiKey, pathLog, driver>>

\* line 39: ffmpeg has written the file and execSync returns
FfmpegEnds(proc) ==
    LET p == provisioners[proc]
    IN  /\ p.pc = "writing"
        /\ provisioners' = [provisioners EXCEPT ![proc] = NextDuration(p)]
        /\ UNCHANGED <<fsVars, runVars, apiKey, pathLog, driver>>

-----------------------------------------------------------------------------
(* The paths the scripts write when run for any language and chapter *)

\* the chapter numbers the scripts are run for: ch1 and ch11 share a prefix
PathChapters == {1, 2, 11}

\* the numbers of units of the manifests the runner is run on
PathUnits == 1..(MaxUnits + 1)

LogRun(script, lang, chapterNum, paths) ==
    /\ Len(pathLog) < MaxRuns
    /\ pathLog' = Append(pathLog, [stage |-> script, lang |-> lang, chapter |-> chapterNum,
                                    paths |-> paths])
    /\ UNCHANGED <<fsVars, runVars, apiKey, provisioners, driver>>

\* prepareChapterChunks(chapterNum, lang): line 125
PlannerWritesPaths ==
    \E lang \in {"en", "es"}, chapterNum \in PathChapters :
        LogRun("planner", lang, chapterNum, {ChunksFilePath(lang, chapterNum)})

\* generateChapterAudio(chapterNum, lang): the silences (line 58) and a clip per
\* unit of the manifest (lines 154, 110), whose ids the planner made for the chapter
RunnerWritesPaths ==
    \E lang \in {"en", "es"}, chapterNum \in PathChapters, units \in PathUnits :
        LogRun("runner", lang, chapterNum,
               {SilenceFilePath(durations[j]) : j \in 1..Len(durations)} \cup
               {ClipFilePath(lang, chapterNum, ChunkId(chapterNum, k)) : k \in 0..(units - 1)})

\* concatChapterAudio(chapterNum, lang): lines 79 and 89
AssemblerWritesPaths ==
    \E lang \in {"en", "es"}, chapterNum \in PathChapters :
        LogRun("assembler", lang, chapterNum,
               {ConcatListPath(lang, chapterNum), OutputFilePath(lang, chapterNum)})

-----------------------------------------------------------------------------
(* Combined driver: build-reiki-audiobook.js *)

\* line 108: for (let i = 1; i <= 11; i++)
NumChapters == 11

\* line 89: ['en', 'es']
Languages == {"en", "es"}

\* the exit statuses of the three scripts
StageExitCodes == {0, 1}

\* process.argv.slice(2)
DriverArgs ==
    {<<>>, <<"all">>, <<"all", "en">>, <<"all", "fr">>, <<"1", "es">>, <<"11", "en">>,
     <<"0", "en">>, <<"12", "en">>, <<"abc", "en">>}

\* parseInt(chapterArg): the number a decimal string stands for, NaN for other strings
ParseInt(str) ==
    IF \E n \in 0..MaxChapterArg : ToString(n) = str
    THEN [nan |-> FALSE, value |-> CHOOSE n \in 0..MaxChapterArg : ToString(n) = str]
    ELSE [nan |-> TRUE, value |-> 0]

\* line 127: isNaN(chapterNum) || chapterNum < 1 || chapterNum > 11
BadChapterNum(chapterNum) ==
    chapterNum.nan \/ chapterNum.value < 1 \/ chapterNum.value > NumChapters

\* runCommand: execSync throws unless the command exits with status 0
runCommand(code) == code = 0

\* lines 41-63: the scripts of steps 1, 2 and 3
BuildSteps == <<"prepare-audio-chunks.js", "generate-chapter-audio.js", "concat-chapter-audio.js">>

StepAfterMutIgnoresFailure(step, code) == IF step < Len(BuildSteps) THEN step + 1 ELSE 0

\* buildChapter: the step run after step `step` ended with status `code`, 0 when
\* buildChapter returns instead (return false at lines 45, 53, 61, return true at 65)
StepAfter(step, code) ==
    IF runCommand(code) /\ step < Len(BuildSteps) THEN step + 1 ELSE 0

LoopAfterBuildMutStopsOnFailure(idx, built) == IF built THEN idx + 1 ELSE NumChapters + 1

\* lines 108-115: the loop goes on to i + 1 whatever buildChapter returned
LoopAfterBuild(idx, built) == idx + 1

DriverExitCodeMutNoExit(failCount) == 0

\* lines 143-155: main returns (status 0) when failCount === 0, else process.exit(1)
DriverExitCode(failCount) == IF failCount = 0 THEN 0 ELSE 1

\* main ends on process.exit(1) before any chapter is built
DriverRejects == driver' = [NoDriver EXCEPT !.pc = "exited", !.exitCode = 1]

\* lines 71-84
DriverUsage ==
    /\ driver.pc = "idle"
    /\ \E args \in DriverArgs : Len(args) < 2
    /\ DriverRejects
    /\ UNCHANGED <<fsVars, runVars, apiKey, provisioners, pathLog>>

\* lines 89-92
DriverBadLang ==
    /\ driver.pc = "idle"
    /\ \E args \in DriverArgs : Len(args) >= 2 /\ args[2] \notin Languages
    /\ DriverRejects
    /\ UNCHANGED <<fsVars, runVars, apiKey, provisioners, pathLog>>

\* lines 126-130
DriverBadChapter ==
    /\ driver.pc = "idle"
    /\ \E args \in DriverArgs :
          /\ Len(args) >= 2
          /\ args[2] \in Languages
          /\ args[1] # "all"
          /\ BadChapterNum(ParseInt(args[1]))
    /\ DriverRejects
    /\ UNCHANGED <<fsVars, runVars, apiKey, provisioners, pathLog>>

\* lines 105-108: the first buildChapter of the loop is called
DriverStartAll ==
    /\ driver.pc = "idle"
    /\ \E args \in DriverArgs :
          /\ Len(args) >= 2
          /\ args[2] \in Languages
          /\ args[1] = "all"
          /\ driver' = [NoDriver EXCEPT !.pc = "building", !.mode = "all", !.lang = args[2],
                                        !.chapter = 1, !.step = 1,
                                        !.requested = 1..NumChapters,
                                        !.attempted = <<1>>,
                                        !.started = <<BuildSteps[1]>>]
    /\ UNCHANGED <<fsVars, runVars, apiKey, provisioners, pathLog>>

\* lines 126-132: buildChapter(chapterNum, lang) is called
DriverStartSingle ==
    /\ driver.pc = "idle"
    /\ \E args \in DriverArgs :
          /\ Len(args) >= 2
          /\ args[2] \in Languages
          /\ args[1] # "all"
          /\ ~BadChapterNum(ParseInt(args[1]))
          /\ driver' = [NoDriver EXCEPT !.pc = "building", !.mode = "single",
                                        !.lang = args[2],
                                        !.chapter = ParseInt(args[1]).value, !.step = 1,
                                        !.requested = {ParseInt(args[1]).value},
                                        !.attempted = <<ParseInt(args[1]).value>>,
                                        !.started = <<BuildSteps[1]>>]
    /\ UNCHANGED <<fsVars, runVars, apiKey, provisioners, pathLog>>

\* buildChapter: step 1 or 2 succeeds and the next script is run
RunCommandOk ==
    /\ driver.pc = "building"
    /\ \E code \in StageExitCodes :
          LET next == StepAfter(driver.step, code)
          IN  /\ next # 0
              /\ driver' = [driver EXCEPT !.step = next,
                                           !.started = Append(@, BuildSteps[next]),
                                           !.codes = Append(@, code)]
    /\ UNCHANGED <<fsVars, runVars, apiKey, provisioners, pathLog>>

\* buildChapter returns, false from the step that failed or true after step 3, and
\* main counts the chapter (lines 109-114, 132-136)
BuildChapterReturns ==
    /\ driver.pc = "building"
    /\ \E code \in StageExitCodes :
          LET built == runCommand(code)
              next == LoopAfterBuild(driver.chapter, built)
              more == driver.mode = "all" /\ next <= NumChapters
          IN  /\ StepAfter(driver.step, code) = 0
              /\ driver' =
                    [driver EXCEPT
                        !.successCount = IF built THEN @ + 1 ELSE @,
                        !.failCount = IF built THEN @ ELSE @ + 1,
                        !.failedChapters = IF built THEN @ ELSE @ \cup {driver.chapter},
                        !.completedChapters = IF built THEN @ \cup {driver.chapter} ELSE @,
                        !.pc = IF more THEN "building" ELSE "done",
                        !.chapter = IF more THEN next ELSE @,
                        !.step = IF more THEN 1 ELSE 0,
                        !.attempted = IF more THEN Append(@, next) ELSE @,
                        !.started = IF more THEN <<BuildSteps[1]>> ELSE @,
                        !.codes = IF more THEN <<>> ELSE Append(@, code)]
    /\ UNCHANGED <<fsVars, runVars, apiKey, provisioners, pathLog>>

\* lines 139-155
DriverFinish ==
    /\ driver.pc = "done"
    /\ driver' = [driver EXCEPT !.pc = "exited", !.exitCode = DriverExitCode(driver.failCount)]
    /\ UNCHANGED <<fsVars, runVars, apiKey, provisioners, pathLog>>

-----------------------------------------------------------------------------
(* The operator between two runs *)

RemoveClip ==
    /\ AtRest
    /\ \E p \in DOMAIN clips : clips' = [q \in DOMAIN clips \ {p} |-> clips[q]]
    /\ Forget
    /\ UNCHANGED <<chapterFile, chunksFile, hasChunksDir, silences, silenceWrites,
                   concatListFile, outputFile, outerVars>>

RemoveSilence ==
    /\ AtRest
    /\ \E p \in silences :
          /\ silences' = silences \ {p}
          /\ silenceWrites' = [silenceWrites EXCEPT ![p] = 0]
    /\ Forget
    /\ UNCHANGED <<chapterFile, chunksFile, hasChunksDir, clips, concatListFile, outputFile,
                   outerVars>>

\* the key is put into or taken out of the environment (.env)
ChangeApiKey ==
    /\ AtRest
    /\ apiKey' = ~apiKey
    /\ Forget
    /\ UNCHANGED <<fsVars, provisioners, pathLog, driver>>

-----------------------------------------------------------------------------
(* Inputs *)

SeqsUpTo(S, n) == UNION {[1..m -> S] : m \in 0..n}

\* the pauses of the manifests the runner and the assembler are run on
ManifestPauses == {0, PAUSES.afterParagraph, PAUSES.afterTitle}

ManifestOf(pauses) ==
    [exists |-> TRUE, chapter |-> 1, lang |-> "en", totalChunks |-> Len(pauses),
     chunks |-> [k \in 1..Len(pauses) |->
                    [id |-> ChunkId(1, k - 1),
                     type |-> IF k = 1 THEN "intro" ELSE "paragraph",
                     text |-> <<"w">>,
                     pauseAfter |-> pauses[k]]]]

Manifests == {ManifestOf(pauses) : pauses \in SeqsUpTo(ManifestPauses, MaxUnits) \ {<<>>}}

\* the content blocks of the chapters the planner is run on; the third one is
\* empty once cleaned
ParagraphBlock == [type |-> "paragraph", text |-> <<"w", "sp", "sp", "term">>]

QuoteBlock == [type |-> "quote", text |-> <<"em", "termc", "/em", "sp">>]

EmptyBlock == [type |-> "paragraph", text |-> <<"sp", "ref", "strong", "/strong", "sp">>]

BlockInputs == {ParagraphBlock, QuoteBlock, EmptyBlock}

Chapters ==
    {[exists |-> TRUE, number |-> 1, lang |-> "en", sections |-> sections] :
        sections \in SeqsUpTo({[content |-> content] :
                                  content \in SeqsUpTo(BlockInputs, MaxBlocks)},
                              MaxSections)}

\* the chapters the whole pipeline is run on: between them their manifests carry
\* every pause of PAUSES
PipelineChapters ==
    {[exists |-> TRUE, number |-> 1, lang |-> "en", sections |-> sections] :
        sections \in {<<>>,
                      <<[content |-> <<QuoteBlock, EmptyBlock>>],
                        [content |-> <<ParagraphBlock>>]>>,
                      <<[content |-> <<ParagraphBlock, QuoteBlock>>],
                        [content |-> <<>>]>>}}

\* the chapter's json is edited between two builds: same chapter and language,
\* other sections
EditChapter ==
    /\ AtRest
    /\ chapterFile.exists
    /\ \E chapter \in PipelineChapters :
          /\ chapter # chapterFile
          /\ chapter.number = chapterFile.number
          /\ chapter.lang = chapterFile.lang
          /\ chapterFile' = chapter
    /\ Forget
    /\ UNCHANGED <<chunksFile, hasChunksDir, clips, silences, silenceWrites,
                   concatListFile, outputFile, outerVars>>

-----------------------------------------------------------------------------
(* Specifications *)

InitRun ==
    /\ stage = "none"
    /\ pc = "idle"
    /\ i = 0
    /\ successCount = 0
    /\ errorCount = 0
    /\ exitCode = 0
    /\ request = NoRequest
    /\ lastResult = NoResult
    /\ lastSleep = 0
    /\ calledPaths = {}
    /\ failedPaths = {}
    /\ clipsAtStart = {}
    /\ report = NoReport

\* the paths generateAllSilences goes through
SilencePaths == {SilencePath(durations[j]) : j \in 1..Len(durations)}

InitFiles ==
    /\ hasChunksDir = FALSE
    /\ clips = <<>>
    /\ silences = {}
    /\ silenceWrites = [p \in SilencePaths |-> 0]
    /\ concatListFile = NoFile
    /\ outputFile = NoFile

\* the runner and the assembler, run in any order on a manifest
Init ==
    /\ chapterFile = NoFile
    /\ chunksFile \in Manifests \cup {NoFile}
    /\ InitFiles
    /\ InitRun
    /\ apiKey \in BOOLEAN
    /\ driver = NoDriver
    /\ pathLog = <<>>
    /\ provisioners = NoProvisioners

Next ==
    \/ GenerateNoManifest
    \/ GenerateSilenceFails
    \/ GenerateStart
    \/ RunnerStep
    \/ concatChapterAudio
    \/ RemoveClip
    \/ RemoveSilence
    \/ ChangeApiKey

Spec == Init /\ [][Next]_vars

\* a started run goes on: the loop takes its next step and a pending call is answered
FairSpec == Spec /\ WF_vars(RunnerStep)

\* the planner, run on a chapter
InitPlanner ==
    /\ chapterFile \in Chapters \cup {NoFile}
    /\ chunksFile = NoFile
    /\ InitFiles
    /\ InitRun
    /\ apiKey = TRUE
    /\ driver = NoDriver
    /\ pathLog = <<>>
    /\ provisioners = NoProvisioners

NextPlanner == PrepareNoChapter \/ prepareChapterChunks

SpecPlanner == InitPlanner /\ [][NextPlanner]_vars

\* the three scripts, run in any order on a chapter
InitPipeline ==
    /\ chapterFile \in PipelineChapters \cup {NoFile}
    /\ chunksFile = NoFile
    /\ InitFiles
    /\ InitRun
    /\ apiKey = TRUE
    /\ driver = NoDriver
    /\ pathLog = <<>>
    /\ provisioners = NoProvisioners

NextPipeline ==
    \/ PrepareNoChapter
    \/ prepareChapterChunks
    \/ GenerateNoManifest
    \/ GenerateSilenceFails
    \/ GenerateStart
    \/ RunnerStep
    \/ concatChapterAudio
    \/ RemoveClip
    \/ RemoveSilence

SpecPipeline == InitPipeline /\ [][NextPipeline]_vars

\* the combined driver, run once
InitDriver ==
    /\ chapterFile = NoFile
    /\ chunksFile = NoFile
    /\ InitFiles
    /\ InitRun
    /\ apiKey = TRUE
    /\ driver = NoDriver
    /\ pathLog = <<>>
    /\ provisioners = NoProvisioners

NextDriver ==
    \/ DriverUsage
    \/ DriverBadLang
    \/ DriverBadChapter
    \/ DriverStartAll
    \/ DriverStartSingle
    \/ RunCommandOk
    \/ BuildChapterReturns
    \/ DriverFinish

SpecDriver == InitDriver /\ [][NextDriver]_vars

\* the three scripts, run in any order on a chapter whose text is edited between runs
InitRebuild ==
    /\ chapterFile \in PipelineChapters
    /\ chunksFile = NoFile
    /\ InitFiles
    /\ InitRun
    /\ apiKey = TRUE
    /\ driver = NoDriver
    /\ pathLog = <<>>
    /\ provisioners = NoProvisioners

NextRebuild ==
    \/ prepareChapterChunks
    \/ GenerateNoManifest
    \/ GenerateStart
    \/ RunnerStep
    \/ concatChapterAudio
    \/ EditChapter

SpecRebuild == InitRebuild /\ [][NextRebuild]_vars

\* the scripts, run for any language and chapter
InitPaths ==
    /\ chapterFile = NoFile
    /\ chunksFile = NoFile
    /\ InitFiles
    /\ InitRun
    /\ apiKey = TRUE
    /\ driver = NoDriver
    /\ provisioners = NoProvisioners
    /\ pathLog = <<>>

NextPaths == PlannerWritesPaths \/ RunnerWritesPaths \/ AssemblerWritesPaths

SpecPaths == InitPaths /\ [][NextPaths]_vars

\* two runner processes, for two chapters, enter generateAllSilences
InitSilenceRace ==
    /\ chapterFile = NoFile
    /\ chunksFile = NoFile
    /\ InitFiles
    /\ InitRun
    /\ apiKey = TRUE
    /\ driver = NoDriver
    /\ pathLog = <<>>
    /\ provisioners = [proc \in Processes |-> [pc |-> "check", k |-> 1, sawPartial |-> FALSE]]

NextSilenceRace ==
    \E proc \in Processes :
        \/ SilenceFound(proc)
        \/ SilenceNotFound(proc)
        \/ FfmpegStarts(proc)
        \/ FfmpegEnds(proc)

SpecSilenceRace == InitSilenceRace /\ [][NextSilenceRace]_vars

-----------------------------------------------------------------------------
(* Properties of the Synthesis Runner *)

Chunks == chunksFile.chunks

ChunkPaths == {ChunkPath(Chunks[k].id) : k \in 1..Len(Chunks)}

RunnerReturned == stage = "runner" /\ pc = "exited" /\ report.kind \in {"ok", "SomeFailed"}

\* C1: textToSpeech is never called for a unit whose clip exists when the loop
\* visits it, such a unit counts as a success, and a run started with every clip
\* present makes no call and returns successCount = the number of units, errorCount = 0
C1_SkipExistingClips ==
    stage = "runner" =>
        /\ pc = "awaiting" => request.path \notin DOMAIN clips
        /\ calledPaths \cap clipsAtStart = {}
        /\ pc \in {"loop", "awaiting"} =>
              successCount = Cardinality({k \in 1..i : ChunkPath(Chunks[k].id) \in DOMAIN clips})
        /\ (RunnerReturned /\ ChunkPaths \subseteq clipsAtStart) =>
              /\ calledPaths = {}
              /\ successCount = Len(Chunks)
              /\ errorCount = 0
              /\ exitCode = 0

C1_Witness ==
    /\ RunnerReturned
    /\ Len(Chunks) >= 2
    /\ ChunkPaths \subseteq clipsAtStart
    /\ successCount = Len(Chunks)

\* C2: after a call for unit k is answered with a 429, the next call issued is for
\* unit k again, and the index moves past a unit only once the unit has a clip or
\* its call failed with a non-throttling error
C2_RetrySameUnit ==
    [][/\ (stage = "runner" /\ pc = "loop" /\ lastResult.outcome = "throttled"
              /\ pc' = "awaiting")
            => request'.path = lastResult.path
       /\ (stage = "runner" /\ pc \in {"loop", "awaiting"} /\ i' > i)
            => \/ ChunkPath(Chunks[i + 1].id) \in DOMAIN clips'
               \/ lastResult' = [outcome |-> "error", path |-> ChunkPath(Chunks[i + 1].id)]
      ]_vars

C2_Witness ==
    /\ stage = "runner"
    /\ pc = "awaiting"
    /\ lastResult.outcome = "throttled"
    /\ request.path = lastResult.path
    /\ i + 1 < Len(Chunks)

\* C3: a run whose call is pending ends, even when every call for some unit is
\* answered with a 429
C3_ThrottledRunEnds ==
    (stage = "runner" /\ pc = "awaiting") ~> (stage = "runner" /\ pc = "exited")

\* C4: a call that fails with a non-throttling error adds one to errorCount, the
\* loop goes on to the next unit, the unit is not called again in this run, and a
\* run with such a failure exits nonzero
C4_FailureCountedOnce ==
    [][/\ (stage = "runner" /\ pc = "awaiting" /\ pc' = "loop"
              /\ lastResult'.outcome = "error")
            => /\ errorCount < MaxErrorCount => errorCount' = errorCount + 1
               /\ i' = i + 1
               /\ successCount' = successCount
               /\ request.path \notin DOMAIN clips'
       /\ (stage' = "runner" /\ pc' = "awaiting") => request'.path \notin failedPaths'
       /\ (stage' = "runner" /\ pc' = "exited" /\ failedPaths' # {}) => exitCode' # 0
      ]_vars

C4_Witness ==
    /\ RunnerReturned
    /\ failedPaths # {}
    /\ lastResult.outcome = "ok"
    /\ lastResult.path \notin failedPaths
    /\ exitCode = 1

\* C5: when a run ends with errorCount = 0 (exit status 0), every unit of the
\* manifest has a clip
C5_CleanRunAllClips ==
    (stage = "runner" /\ pc = "exited" /\ (exitCode = 0 \/ (RunnerReturned /\ errorCount = 0)))
        => \A k \in 1..Len(Chunks) : ChunkPath(Chunks[k].id) \in DOMAIN clips

C5_Witness ==
    /\ RunnerReturned
    /\ exitCode = 0
    /\ errorCount = 0
    /\ Len(Chunks) >= 2
    /\ Cardinality(calledPaths) >= 2

-----------------------------------------------------------------------------
(* Properties of the Assembler *)

AssemblerRan == stage = "assembler" /\ pc = "exited"

MissingIds ==
    SelectSeq([k \in 1..Len(Chunks) |-> Chunks[k].id],
              LAMBDA id : ChunkPath(id) \notin DOMAIN clips)

AllClipsExist == \A k \in 1..Len(Chunks) : ChunkPath(Chunks[k].id) \in DOMAIN clips

AllSilencesExist ==
    \A k \in 1..Len(Chunks) :
        Chunks[k].pauseAfter > 0 => SilencePath(Chunks[k].pauseAfter) \in silences

AssemblerPre == chunksFile.exists /\ AllClipsExist /\ AllSilencesExist

\* C6: run on a manifest with the clips directory in place and a clip missing,
\* the Assembler exits nonzero and reports exactly the ids of the missing clips,
\* whatever silences exist
C6_MissingClipsAllReported ==
    (AssemblerRan /\ chunksFile.exists /\ hasChunksDir /\ Len(MissingIds) > 0)
        => /\ exitCode # 0
           /\ report.kind = "ClipMissing"
           /\ report.missing = MissingIds

\* C7: the Assembler runs the concatenation tool only when every clip and every
\* needed silence exists; otherwise it exits nonzero and has written neither the
\* concat list nor the final artifact
C7_ToolOnlyWhenComplete ==
    [][(AtRest /\ stage' = "assembler" /\ pc' = "exited")
          => /\ report'.toolInvoked => AssemblerPre
             /\ ~AssemblerPre => /\ exitCode' # 0
                                 /\ ~report'.toolInvoked
                                 /\ concatListFile' = concatListFile
                                 /\ outputFile' = outputFile
      ]_vars

C7_Witness ==
    /\ AssemblerRan
    /\ report.kind = "SilenceMissing"
    /\ chunksFile.exists
    /\ AllClipsExist
    /\ ~AllSilencesExist
    /\ exitCode = 1
    /\ ~concatListFile.exists
    /\ ~outputFile.exists

\* the place of unit k's clip in the tool's input
ClipPosition(k) == k + Cardinality({j \in 1..(k - 1) : Chunks[j].pauseAfter > 0})

\* C8: the tool's input is clip(u1), silence(pauseAfter(u1)) if > 0, clip(u2), ...
\* in manifest order, nothing else
C8_InputsInManifestOrder ==
    (AssemblerRan /\ report.toolInvoked) =>
        /\ concatListFile.exists
        /\ concatListFile.lines = report.toolInput
        /\ Len(report.toolInput) =
              Len(Chunks) + Cardinality({j \in 1..Len(Chunks) : Chunks[j].pauseAfter > 0})
        /\ \A k \in 1..Len(Chunks) :
              /\ report.toolInput[ClipPosition(k)] = ChunkPath(Chunks[k].id)
              /\ Chunks[k].pauseAfter > 0 =>
                    report.toolInput[ClipPosition(k) + 1] = SilencePath(Chunks[k].pauseAfter)

C8_Witness ==
    /\ AssemblerRan
    /\ report.toolInvoked
    /\ exitCode = 0
    /\ Len(Chunks) >= 2
    /\ Chunks[1].pauseAfter = 0
    /\ Chunks[2].pauseAfter > 0
    /\ outputFile.exists
    /\ outputFile.inputs = report.toolInput

\* C9: when the tool fails in a run started with a complete final artifact in
\* place, the Assembler exits nonzero and the artifact is as it was
C9_FailureKeepsArtifact ==
    [][(AtRest /\ outputFile.exists /\ outputFile.complete
           /\ stage' = "assembler" /\ pc' = "exited" /\ report'.kind = "ConcatToolError")
          => /\ exitCode' # 0
             /\ outputFile' = outputFile
      ]_vars

-----------------------------------------------------------------------------
(* Properties of the Planner *)

Sections == chapterFile.sections

Survives(s, b) == cleanText(Sections[s].content[b].text) # <<>>

\* the place in the manifest of the unit block b of section s yields
UnitOf(s, b) ==
    2 + Cardinality({sb \in {<<s2, b2>> : s2 \in 1..s, b2 \in 1..MaxBlocks + 1} :
                        /\ sb[2] <= Len(Sections[sb[1]].content)
                        /\ sb[1] < s \/ sb[2] < b
                        /\ Survives(sb[1], sb[2])})

\* C10: the intro unit has 2.0; a block's unit has 3.0 when the block is the last of
\* the last section, else 2.5 when it is the last of its section, else 1.5 for a
\* quote and 0.8 for any other block
C10_PausePolicy ==
    (stage = "planner" /\ pc = "exited" /\ exitCode = 0) =>
        /\ chunksFile.exists
        /\ Chunks[1].type = "intro"
        /\ Chunks[1].pauseAfter = 20
        /\ \A s \in 1..Len(Sections) : \A b \in 1..Len(Sections[s].content) :
              Survives(s, b) =>
                 /\ UnitOf(s, b) <= Len(Chunks)
                 /\ Chunks[UnitOf(s, b)].type = Sections[s].content[b].type
                 /\ Chunks[UnitOf(s, b)].pauseAfter =
                       IF s = Len(Sections) /\ b = Len(Sections[s].content) THEN 30
                       ELSE IF b = Len(Sections[s].content) THEN 25
                       ELSE IF Sections[s].content[b].type = "quote" THEN 15
                       ELSE 8

C10_Witness ==
    /\ stage = "planner"
    /\ pc = "exited"
    /\ chunksFile.exists
    /\ [k \in 1..Len(Chunks) |-> Chunks[k].pauseAfter] = <<20, 15, 25, 8, 30>>
    /\ [k \in 1..Len(Chunks) |-> Chunks[k].type]
          = <<"intro", "quote", "quote", "paragraph", "quote">>

\* the blocks of the chapter, as (section, block) positions
BlockPositions ==
    {sb \in (1..Len(Sections)) \X (1..MaxBlocks) : sb[2] <= Len(Sections[sb[1]].content)}

PlannerWrote == stage = "planner" /\ pc = "exited" /\ exitCode = 0

\* C11: the manifest holds the intro and one unit per block that is not empty once
\* cleaned, no unit has an empty text, and the unit at position k (from 1) carries
\* the ordinal k - 1 in its id: no gap, no repeat, whatever blocks were dropped
C11_OrdinalsGapFree ==
    PlannerWrote =>
        /\ Len(Chunks) = 1 + Cardinality({sb \in BlockPositions : Survives(sb[1], sb[2])})
        /\ chunksFile.totalChunks = Len(Chunks)
        /\ \A k \in 1..Len(Chunks) :
              /\ Chunks[k].id = ChunkId(chapterFile.number, k - 1)
              /\ Chunks[k].text # <<>>

\* a block that is dropped stands before a block that is kept, which gets ordinal 1
C11_Witness ==
    /\ PlannerWrote
    /\ Len(Sections) > 0
    /\ Len(Sections[1].content) = 2
    /\ ~Survives(1, 1)
    /\ Survives(1, 2)
    /\ Len(Chunks) >= 2
    /\ Chunks[2].id = "ch1-chunk-001"
    /\ Chunks[2].text = cleanText(Sections[1].content[2].text)

-----------------------------------------------------------------------------
(* Properties of the silence files *)

RunnerInLoop == stage = "runner" /\ pc \in {"loop", "awaiting"}

RunnerFatal == stage = "runner" /\ pc = "exited" /\ report.kind = "Fatal"

\* C13: while the loop over the units runs, hence before the first call of
\* textToSpeech, the silence file of each of the five durations exists; a run that
\* ends on a failed silence exits with status 1, has called textToSpeech for no
\* unit, has counted no unit and has left the clips as they were
C13_SilencesBeforeSynthesis ==
    /\ [](RunnerInLoop => SilencePaths \subseteq silences)
    /\ [](stage = "runner" /\ calledPaths # {} => SilencePaths \subseteq silences)
    /\ [](RunnerFatal =>
            exitCode = 1 /\ calledPaths = {} /\ successCount = 0 /\ errorCount = 0)
    /\ [][RunnerFatal' => clips' = clips]_vars

\* a run fails on a silence although clips of an earlier run are there
C13_Witness ==
    /\ RunnerFatal
    /\ DOMAIN clips # {}
    /\ ~(SilencePaths \subseteq silences)

\* C14: a silence file that exists is never written again: its count of writes is 1
\* for as long as it exists, and a step of the runner leaves an existing file and
\* its count as they are
C14_SilenceCreatedOnce ==
    /\ [](\A p \in SilencePaths :
            /\ silenceWrites[p] <= 1
            /\ p \in silences => silenceWrites[p] = 1)
    /\ [][stage' = "runner" =>
            \A p \in silences : p \in silences' /\ silenceWrites'[p] = silenceWrites[p]]_vars

\* a later run goes through generateAllSilences with all five files in place
C14_Witness ==
    /\ RunnerInLoop
    /\ clipsAtStart # {}
    /\ SilencePaths \subseteq silences
    /\ \A p \in SilencePaths : silenceWrites[p] = 1

\* C15: every pause of a manifest the planner wrote names a silence file the runner
\* provisions, and the assembler ends on a missing silence only when one of the
\* five provisioned files is not there
C15_PausesProvisioned ==
    /\ chunksFile.exists =>
          \A k \in 1..Len(Chunks) : SilencePath(Chunks[k].pauseAfter) \in SilencePaths
    /\ (AssemblerRan /\ report.kind = "SilenceMissing") => ~(SilencePaths \subseteq silences)

\* the assembler went through a planned manifest with a quote pause and used the
\* silences the runner made
C15_Witness ==
    /\ AssemblerRan
    /\ exitCode = 0
    /\ \E k \in 1..Len(Chunks) : Chunks[k].pauseAfter = PAUSES.afterQuote
    /\ SilencePath(PAUSES.afterQuote) \in silences
    /\ \E k \in 1..Len(report.toolInput) : report.toolInput[k] = SilencePath(PAUSES.afterQuote)

-----------------------------------------------------------------------------
(* Properties of the manifest as seen by the runner and the assembler *)

\* C16: no step of the runner or of the assembler creates, changes or deletes the
\* manifest
C16_ManifestReadOnly ==
    [][stage' \in {"runner", "assembler"} => chunksFile' = chunksFile]_vars

\* the runner and then the assembler have gone through a manifest to the artifact
C16_Witness ==
    /\ AssemblerRan
    /\ exitCode = 0
    /\ chunksFile.exists
    /\ outputFile.exists
    /\ ChunkPaths \subseteq DOMAIN clips

\* C17: without a manifest a run of the runner or of the assembler is one step that
\* exits with a nonzero status, calls textToSpeech for nothing, and leaves the chunks
\* directory, the clips, the silences, the concat list and the artifact as they were
C17_NoManifestNoEffect ==
    [][(~chunksFile.exists /\ stage' \in {"runner", "assembler"}) =>
          /\ pc' = "exited"
          /\ exitCode' # 0
          /\ report'.kind = "ManifestMissing"
          /\ calledPaths' = {}
          /\ UNCHANGED <<hasChunksDir, clips, silences, silenceWrites, concatListFile,
                         outputFile>>]_vars

\* the runner has ended on the missing manifest and nothing is on disk
C17_Witness ==
    /\ stage = "runner"
    /\ pc = "exited"
    /\ report.kind = "ManifestMissing"
    /\ exitCode = 1
    /\ ~chunksFile.exists
    /\ ~hasChunksDir
    /\ silences = {}

-----------------------------------------------------------------------------
(* Properties of the runner's configuration *)

\* C18: a run of the runner without the API key is over at once with a nonzero
\* status: it never enters the loop over the units, calls textToSpeech for nothing
\* and counts no unit as a success or as a failure, whatever clips exist
C18_NoKeyFatalAtStartup ==
    (stage = "runner" /\ ~apiKey) =>
        /\ pc = "exited"
        /\ exitCode # 0
        /\ successCount = 0
        /\ errorCount = 0
        /\ calledPaths = {}

-----------------------------------------------------------------------------
(* Properties of the combined driver *)

DriverEnded == driver.pc \in {"done", "exited"}

\* C19: in batch mode buildChapter is called for 1, 2, 3, ... in this order, each
\* chapter once; when the loop is over all 11 chapters were attempted, successCount
\* and failCount add up to 11, and failCount is the number of chapters one of whose
\* stages failed
C19_BatchAttemptsAll ==
    driver.mode = "all" =>
        /\ driver.attempted = [k \in 1..Len(driver.attempted) |-> k]
        /\ DriverEnded =>
              /\ Len(driver.attempted) = NumChapters
              /\ driver.successCount + driver.failCount = NumChapters
              /\ driver.failCount = Cardinality(driver.failedChapters)

\* the batch went on after chapter 1 failed and ended with failures and successes
C19_Witness ==
    /\ driver.mode = "all"
    /\ driver.pc = "exited"
    /\ 1 \in driver.failedChapters
    /\ driver.failCount = 3
    /\ driver.successCount = 8

\* C20: the driver's exit status is 0 exactly when its arguments were accepted and
\* every chapter it was asked for went through all three stages
C20_ExitZeroIffAllBuilt ==
    driver.pc = "exited" =>
        (driver.exitCode = 0 <=>
            (driver.mode # "none" /\ driver.requested \subseteq driver.completedChapters))

\* a batch in which a single chapter failed ends with a nonzero status
C20_Witness ==
    /\ driver.mode = "all"
    /\ driver.pc = "exited"
    /\ driver.exitCode = 1
    /\ Cardinality(driver.failedChapters) = 1
    /\ Cardinality(driver.completedChapters) = NumChapters - 1

-----------------------------------------------------------------------------
(* Properties of the runner's loop *)

\* the position in the manifest of the unit whose clip is at this path
PositionOf(outputPath) ==
    CHOOSE k \in 1..Len(Chunks) : ChunkPath(Chunks[k].id) = outputPath

\* C21: a run has a call pending exactly while it awaits textToSpeech, it issues no
\* call while one is pending, and when it issues a call no unit called earlier in
\* the run stands later in the manifest than the unit now called
C21_OneCallInOrder ==
    /\ [](stage = "runner" => (pc = "awaiting" <=> request # NoRequest))
    /\ [][(stage = "runner" /\ pc = "awaiting")
             => (request' = NoRequest /\ calledPaths' = calledPaths)]_vars
    /\ [][(stage' = "runner" /\ pc = "loop" /\ pc' = "awaiting")
             => \A p \in calledPaths : PositionOf(p) <= PositionOf(request'.path)]_vars

\* a call is pending for a unit after the call for an earlier unit failed
C21_Witness ==
    /\ stage = "runner"
    /\ pc = "awaiting"
    /\ Cardinality(calledPaths) >= 2
    /\ failedPaths # {}
    /\ PositionOf(request.path) = Len(Chunks)

\* C22: the step that ends a successful call sleeps DELAY_BETWEEN_REQUESTS unless the
\* call was for the last unit of the manifest, in which case it does not sleep; the
\* step that skips a unit whose clip exists does not sleep; and the next call is
\* issued by a later step, hence after the sleep
C22_PacingDelay ==
    [][/\ (stage = "runner" /\ pc = "awaiting" /\ lastResult'.outcome = "ok")
            => /\ pc' = "loop"
               /\ lastSleep' = IF PositionOf(request.path) < Len(Chunks)
                                THEN DELAY_BETWEEN_REQUESTS ELSE 0
       /\ (stage = "runner" /\ pc = "loop" /\ successCount' = successCount + 1)
            => lastSleep' = 0
      ]_vars

\* the call for a unit that is not the last one has succeeded and the run has slept
C22_Witness ==
    /\ stage = "runner"
    /\ pc = "loop"
    /\ lastResult.outcome = "ok"
    /\ lastSleep = DELAY_BETWEEN_REQUESTS
    /\ i < Len(Chunks)
    /\ ~ShouldSkip(ChunkPath(CurrentChunk.id))

-----------------------------------------------------------------------------
(* Properties of the assembler's report *)

\* C23: the number of entries the assembler reports for the concat list it wrote is
\* the number of lines of the list, which is twice the number of units less the
\* number of units with a zero pause
C23_ReportedEntryCount ==
    (AssemblerRan /\ report.toolInvoked) =>
        /\ report.entries = Len(concatListFile.lines)
        /\ report.entries =
              2 * Len(Chunks) - Cardinality({k \in 1..Len(Chunks) : Chunks[k].pauseAfter = 0})

-----------------------------------------------------------------------------
(* Properties of runner processes that run at the same time *)

\* C24: with two runner processes in generateAllSilences, no silence file is written
\* by ffmpeg more than once, and no process finds a file to exist while an ffmpeg
\* is still writing it
C24_ConcurrentProvisioning ==
    /\ \A outputPath \in SilencePaths : silenceWrites[outputPath] <= 1
    /\ \A proc \in Processes : ~provisioners[proc].sawPartial

-----------------------------------------------------------------------------
(* Properties of the paths *)

\* the manifest, the clips and the final artifact of a (lang, chapter)
OwnedPaths(lang, chapterNum) ==
    {ChunksFilePath(lang, chapterNum), OutputFilePath(lang, chapterNum)} \cup
    {ClipFilePath(lang, chapterNum, ChunkId(chapterNum, k)) : k \in 0..MaxUnits}

\* C25: a run for (lang, chapter) writes the manifest, clips, concat list or final
\* artifact of that chapter's directory or, for the runner, files of the silences
\* directory, and none of the paths it writes is the manifest, a clip or the final
\* artifact of another (lang, chapter)
C25_WritesOwnChapterOnly ==
    \A r \in 1..Len(pathLog) :
        LET run == pathLog[r]
        IN  /\ \A p \in run.paths :
                  \/ p \in OwnedPaths(run.lang, run.chapter)
                  \/ p = ConcatListPath(run.lang, run.chapter)
                  \/ run.stage = "runner" /\ p \in {SilenceFilePath(durations[j]) :
                                                        j \in 1..Len(durations)}
            /\ \A lang \in {"en", "es"}, chapterNum \in 1..NumChapters :
                  <<lang, chapterNum>> # <<run.lang, run.chapter>>
                     => run.paths \cap OwnedPaths(lang, chapterNum) = {}

\* the runner has run for chapter 1 and then a script for chapter 11 in the same language
C25_Witness ==
    /\ Len(pathLog) = 2
    /\ pathLog[1].stage = "runner"
    /\ pathLog[1].chapter = 1
    /\ Cardinality(pathLog[1].paths) > Len(durations) + 1
    /\ pathLog[2].chapter = 11
    /\ pathLog[2].lang = pathLog[1].lang

-----------------------------------------------------------------------------
(* Properties of the runner's exit status *)

\* C26: a run that went through the loop exits with status 0 exactly when every
\* unit of the manifest has its clip at that point, a unit that was throttled and
\* then synthesized included
C26_ExitZeroIffAllClips ==
    RunnerReturned => (exitCode = 0 <=> ChunkPaths \subseteq DOMAIN clips)

-----------------------------------------------------------------------------
(* Properties of buildChapter *)

\* C27: within a chapter the driver starts the planner, then the runner, then the
\* assembler; when a step is started every earlier step of the chapter has ended
\* with status 0, so the assembler is not started after a runner that exited nonzero
C27_StagesInOrderAndGated ==
    LET started == driver.started
        codes == driver.codes
    IN  /\ Len(started) <= Len(BuildSteps)
        /\ \A k \in 1..Len(started) :
              /\ started[k] = BuildSteps[k]
              /\ \A j \in 1..(k - 1) : j <= Len(codes) /\ codes[j] = 0
        /\ Len(codes) >= 2 /\ codes[2] # 0 => Len(started) = 2

\* in an "all" build an earlier chapter failed and the present chapter's assembler
\* was started after its planner and runner
C27_Witness ==
    /\ driver.pc = "building"
    /\ driver.failCount > 0
    /\ driver.started = BuildSteps
    /\ driver.codes = <<0, 0>>

-----------------------------------------------------------------------------
(* Properties of the clips a run writes *)

\* the units whose call of this run has resolved: called, not pending, not failed
\* with an error, and not waiting for the retry of a throttled call
SucceededPaths ==
    ((calledPaths \ failedPaths)
        \ (IF request = NoRequest THEN {} ELSE {request.path}))
        \ (IF lastResult.outcome = "throttled" THEN {lastResult.path} ELSE {})

\* C28: the step that ends a call with a rejection (throttled, another status, a
\* transport error) leaves every clip as it was; during a run the clips change only
\* on the step that ends a call with success, which writes the clip of the unit
\* called and no other; so at every point of the loop and at its end a clip that
\* exists was there when the run started or belongs to a unit whose call succeeded
C28_ClipOnlyFromSuccess ==
    /\ [][(stage = "runner" /\ pc = "awaiting" /\ lastResult'.outcome # "ok")
             => clips' = clips]_vars
    /\ [][(stage = "runner" /\ stage' = "runner" /\ clips' # clips)
             => /\ pc = "awaiting"
                /\ lastResult' = [outcome |-> "ok", path |-> request.path]
                /\ DOMAIN clips' = DOMAIN clips \cup {request.path}
                /\ \A p \in DOMAIN clips \ {request.path} : clips'[p] = clips[p]]_vars
    /\ [](RunnerInLoop \/ RunnerReturned
             => DOMAIN clips \subseteq clipsAtStart \cup SucceededPaths)

\* a run in which one unit was throttled and then failed with an error and another
\* unit was synthesized: the first has no clip, the second has
C28_Witness ==
    /\ stage = "runner"
    /\ pc = "loop"
    /\ errorCount >= 2
    /\ failedPaths # {}
    /\ failedPaths \cap DOMAIN clips = {}
    /\ SucceededPaths # {}
    /\ SucceededPaths \subseteq DOMAIN clips

-----------------------------------------------------------------------------
(* Properties of the pauses at the ends of sections and of the chapter *)

\* the blocks of section s that are not empty once cleaned
SurvivingBlocks(s) == {b \in 1..Len(Sections[s].content) : Survives(s, b)}

\* the last of them
LastSurviving(s) == CHOOSE b \in SurvivingBlocks(s) : \A c \in SurvivingBlocks(s) : c <= b

\* C29: in a manifest with a unit from a content block the last unit has pause 3.0
\* and no other unit has it, and the unit of the last surviving block of each
\* section but the last has pause 2.5, also when later blocks of the section are
\* empty once cleaned
C29_BoundaryPausesOnSurvivors ==
    (PlannerWrote /\ Len(Chunks) >= 2) =>
        /\ Chunks[Len(Chunks)].pauseAfter = PAUSES.endChapter
        /\ \A k \in 1..(Len(Chunks) - 1) : Chunks[k].pauseAfter # PAUSES.endChapter
        /\ \A s \in 1..(Len(Sections) - 1) :
              SurvivingBlocks(s) # {} =>
                 Chunks[UnitOf(s, LastSurviving(s))].pauseAfter = PAUSES.afterSection

-----------------------------------------------------------------------------
(* Properties of rebuilds after the chapter changed *)

\* C30: when the assembler has concatenated the clips of the manifest, the clip of
\* each unit was synthesized from the text the manifest records for that unit,
\* whatever runs and chapter edits came before
C30_ClipsFromCurrentText ==
    (AssemblerRan /\ report.toolInvoked /\ exitCode = 0) =>
        \A k \in 1..Len(Chunks) :
            /\ ChunkPath(Chunks[k].id) \in DOMAIN clips
            /\ clips[ChunkPath(Chunks[k].id)] = Chunks[k].text

====
